---- MODULE Spec2Model ----
(***************************************************************************)
(* ROCm-bench: the GPU sampler (a background polling thread), the           *)
(* benchmark collector, the run orchestrator run_command_and_collect, the   *)
(* `run exec` and `status list` commands, modelled from src/rocm_bench.     *)
(* Spec is one run of the orchestrator, SpecSampler a sampler driven        *)
(* directly, SpecRecords the collector and `status list` on one directory   *)
(* over time, SpecSlug _slugify alone.                                      *)
(*                                                                         *)
(* Strings are sequences of letters (each letter a TLA+ string), dicts are  *)
(* functions, Optional[T] is <<>> for None and <<x>> for a value x.         *)
(* Time is counted in ticks; one tick is one second and intervals are whole *)
(* numbers of ticks.  Polling threads carry no identity: the thread that    *)
(* self._thread refers to is kept apart, the others form a bag.             *)
(***************************************************************************)
EXTENDS Integers, Sequences, FiniteSets, Bags, TLC

\* ---------------------------------------------------------------- bounds
MaxThreads == 2      \* polling threads of one sampler running at the same time
MaxSamples == 2      \* samples appended to one sampler
MaxClock == 1        \* the wall clock saturates here
MaxFiles == 2        \* files in the output directory
MaxLabel == 4        \* letters of a label given to _slugify

\* ---------------------------------------------------------------- values
None == <<>>
Some(x) == <<x>>
IsNone(o) == o = <<>>

JStr(s) == [t |-> "str", v |-> s]
JTrue == [t |-> "bool", v |-> <<"true">>]

EmptyDict == <<>>

\* dict[k] = v on a dict modelled as a function
DictSet(d, k, v) == [x \in (DOMAIN d) \cup {k} |-> IF x = k THEN v ELSE d[x]]

BENCHMARK == <<"b", "e", "n", "c", "h", "m", "a", "r", "k">>
DRY_RUN == <<"dry_run">>

\* the inputs explored
Labels == { <<>>, <<"a", "*", "b">> }
Cmds == { <<>>, << <<"x">> >> }
Intervals == {0, 1}
ExitCodes == {0, 1, 2}
Loads == {0, 10000}            \* load fraction in units of 1/10000
Vrams == {1048576}             \* VRAM usage in bytes
ExtraArgs == { <<>>,
               << <<"k", "=", "v", "=", "v">>, <<"k">> >>,
               << <<"k">>, <<"dry_run", "=", "v">> >> }
DirectExtras == { None, Some(EmptyDict),
                  Some([x \in {<<"k">>} |-> JStr(<<"v">>)]) }

\* the argument combinations explored for runs that execute the command
\* (a dry run explores every combination)
RunArgs == { << << <<"x">> >>, <<"a", "*", "b">>,
                << <<"k", "=", "v", "=", "v">>, <<"k">> >> >>,
             << << <<"x">> >>, <<>>, << <<"k">>, <<"dry_run", "=", "v">> >> >> }
DirectArgs == { << <<>>, <<>>, None >>,
                << << <<"x">> >>, <<"a", "*", "b">>, Some(EmptyDict) >> }

\* ---------------------------------------------------------------- _slugify
\* the letters of this model that [A-Za-z0-9._-] contains (services.py:27)
SafeLetters == {"a", "b", "c", "e", "h", "k", "m", "n", "r", "v", "x",
                ".", "_", "-"}
StripLetters == {"-", ".", "_"}

RECURSIVE DropUnsafe(_)
DropUnsafe(s) ==
    IF s # <<>> /\ Head(s) \notin SafeLetters THEN DropUnsafe(Tail(s)) ELSE s

\* every unsafe letter replaced by its own "-"
RECURSIVE SafeSub_PerLetter(_)
SafeSub_PerLetter(s) ==
    IF s = <<>> THEN <<>>
    ELSE IF Head(s) \in SafeLetters THEN <<Head(s)>> \o SafeSub_PerLetter(Tail(s))
    ELSE <<"-">> \o SafeSub_PerLetter(Tail(s))

\* _SAFE_PATTERN.sub("-", value) (services.py:27,31)
RECURSIVE SafeSub(_)
SafeSub(s) ==
    IF s = <<>> THEN <<>>
    ELSE IF Head(s) \in SafeLetters THEN <<Head(s)>> \o SafeSub(Tail(s))
    ELSE <<"-">> \o SafeSub(DropUnsafe(Tail(s)))

RECURSIVE LStrip(_)
LStrip(s) ==
    IF s # <<>> /\ Head(s) \in StripLetters THEN LStrip(Tail(s)) ELSE s

RECURSIVE RStrip(_)
RStrip(s) ==
    IF s # <<>> /\ s[Len(s)] \in StripLetters
    THEN RStrip(SubSeq(s, 1, Len(s) - 1)) ELSE s

_slugify(value) ==
    LET s == RStrip(LStrip(SafeSub(value)))
    IN IF s = <<>> THEN BENCHMARK ELSE s

\* ---------------------------------------------------------------- summary
RECURSIVE SeqSum(_)
SeqSum(s) == IF s = <<>> THEN 0 ELSE Head(s) + SeqSum(Tail(s))

RECURSIVE SeqMax(_)
SeqMax(s) ==
    IF Len(s) = 1 THEN s[1]
    ELSE LET m == SeqMax(Tail(s)) IN IF Head(s) > m THEN Head(s) ELSE m

\* n/d rounded to the nearest integer, ties to even (Python's round)
RoundDiv(n, d) ==
    LET q == n \div d
        r == n % d
    IN IF 2 * r < d THEN q
       ELSE IF 2 * r > d THEN q + 1
       ELSE IF q % 2 = 0 THEN q ELSE q + 1

MiB == 1048576

\* the dict built at services.py:173-181; percentages and megabytes are
\* held in hundredths (the two decimals round(..., 2) keeps)
SummaryDict(loads, vrams, count, interval) ==
    [provider |-> "pyamdgpuinfo",
     sample_interval_seconds |-> interval,
     sample_count |-> count,
     avg_gpu_load_percent |-> RoundDiv(SeqSum(loads), count),
     max_gpu_load_percent |-> SeqMax(loads),
     avg_vram_mb |-> RoundDiv(SeqSum(vrams) * 100, count * MiB),
     max_vram_mb |-> RoundDiv(SeqMax(vrams) * 100, MiB)]

SeqLoads(samples) == [i \in 1..Len(samples) |-> samples[i][1]]
SeqVrams(samples) == [i \in 1..Len(samples) |-> samples[i][2]]

\* ---------------------------------------------------------------- collect
\* the value dropped for an empty dict
OrEmpty_Dropped(o) == EmptyDict

\* `x or {}` (services.py:100-101)
OrEmpty(o) == IF IsNone(o) THEN EmptyDict ELSE o[1]

\* label or (cmd[0] if cmd else "benchmark")  (services.py:105)
SlugSource(label, cmd) ==
    IF label # <<>> THEN label ELSE IF cmd # <<>> THEN cmd[1] ELSE BENCHMARK

\* the zones APP_TIMEZONE may name; instants are seconds counted from
\* 2026-10-25T00:00:00Z, and Europe/Amsterdam leaves summer time at
\* 01:00:00Z of that day
Zones == {"UTC", "Europe/Amsterdam"}
FoldAt == 3600
UtcOffset(zone, now) ==
    IF zone = "UTC" THEN 0 ELSE IF now < FoldAt THEN 7200 ELSE 3600

\* datetime.now(tz) as strftime("%Y%m%dT%H%M%S") prints it: the wall-clock
\* second in the zone; the "Z" that follows is a literal (services.py:106)
WallSecond(zone, now) == now + UtcOffset(zone, now)

\* a record written under the slug of the label instead of the label
Record_SlugLabel(l, c, tt, rs, ex, gs, now) ==
    [label |-> _slugify(SlugSource(l, c)),
     cmd |-> c,
     total_time_seconds |-> tt,
     runtime_seconds |-> rs,
     gpu_stats |-> OrEmpty(gs),
     extra |-> OrEmpty(ex),
     recorded_at |-> now]

\* the record dict (services.py:95-103)
Record(label, cmd, total_time, runtime_seconds, extra, gpu_stats, now) ==
    [label |-> label,
     cmd |-> cmd,
     total_time_seconds |-> total_time,
     runtime_seconds |-> runtime_seconds,
     gpu_stats |-> OrEmpty(gpu_stats),
     extra |-> OrEmpty(extra),
     recorded_at |-> now]

\* ---------------------------------------------------------------- JSON
\* json.dumps of a str: the text between the quotes
RECURSIVE EscapeStr(_)
EscapeStr(s) ==
    IF s = <<>> THEN <<>>
    ELSE (IF Head(s) \in {"\"", "\\"} THEN <<"\\", Head(s)>> ELSE <<Head(s)>>)
         \o EscapeStr(Tail(s))

\* json.loads of that text
RECURSIVE UnescapeStr(_)
UnescapeStr(s) ==
    IF s = <<>> THEN <<>>
    ELSE IF Head(s) = "\\" /\ Len(s) >= 2
         THEN <<s[2]>> \o UnescapeStr(Tail(Tail(s)))
         ELSE <<Head(s)>> \o UnescapeStr(Tail(s))

\* the decimal digits json.dumps prints for a number, and their value
RECURSIVE Digits(_)
Digits(n) == IF n < 10 THEN <<n>> ELSE Digits(n \div 10) \o <<n % 10>>

RECURSIVE DigitsValue(_)
DigitsValue(d) ==
    IF d = <<>> THEN 0 ELSE 10 * DigitsValue(SubSeq(d, 1, Len(d) - 1)) + d[Len(d)]

JNull == [t |-> "null", v |-> <<>>]
JNum(n) == [t |-> "num", v |-> Digits(n)]
JList(l) == [t |-> "list", v |-> l]
JObj(d) == [t |-> "obj", v |-> d]
JOptNum(o) == IF IsNone(o) THEN JNull ELSE JNum(o[1])

\* json.dumps(record, indent=2) (services.py:109): the document written.
\* gpu_stats and extra are kept as the objects they are.
JsonDumps(record) ==
    JObj([label |-> JStr(EscapeStr(record.label)),
          cmd |-> JList([i \in DOMAIN record.cmd |-> JStr(EscapeStr(record.cmd[i]))]),
          total_time_seconds |-> JNum(record.total_time_seconds),
          runtime_seconds |-> JOptNum(record.runtime_seconds),
          gpu_stats |-> JObj(record.gpu_stats),
          extra |-> JObj(record.extra),
          recorded_at |-> JNum(record.recorded_at)])

\* json.loads of one value
LoadsValue(j) ==
    CASE j.t = "str" -> UnescapeStr(j.v)
      [] j.t = "num" -> DigitsValue(j.v)
      [] j.t = "list" -> [i \in DOMAIN j.v |-> UnescapeStr(j.v[i].v)]
      [] OTHER -> j.v

\* json.loads of a document written by collect, as a test reads it back
\* (tests/core/test_services.py:17)
JsonLoads(doc) ==
    [k \in DOMAIN doc.v |->
        IF k = "runtime_seconds"
        THEN (IF doc.v[k].t = "null" THEN None ELSE Some(LoadsValue(doc.v[k])))
        ELSE LoadsValue(doc.v[k])]

\* ---------------------------------------------------------------- --extra
HasEq(kv) == \E i \in 1..Len(kv) : kv[i] = "="
\* splitting at the last "=" instead
FirstEq_Last(kv) == CHOOSE i \in 1..Len(kv) : kv[i] = "=" /\ \A j \in (i + 1)..Len(kv) : kv[j] # "="

\* kv.split("=", 1) (run.py:54)
FirstEq(kv) == CHOOSE i \in 1..Len(kv) : kv[i] = "=" /\ \A j \in 1..(i - 1) : kv[j] # "="
SplitKey(kv) == SubSeq(kv, 1, FirstEq(kv) - 1)
SplitVal(kv) == SubSeq(kv, FirstEq(kv) + 1, Len(kv))

\* the loop of run.py:50-57 over the first n entries
RECURSIVE ExtraDict(_, _)
ExtraDict(args, n) ==
    IF n = 0 THEN EmptyDict
    ELSE LET d == ExtraDict(args, n - 1)
             kv == args[n]
         IN IF HasEq(kv) THEN DictSet(d, SplitKey(kv), JStr(SplitVal(kv))) ELSE d

\* the entries warned about on stderr (run.py:57)
ExtraWarnings(args) == SelectSeq(args, LAMBDA kv : ~HasEq(kv))

\* ---------------------------------------------------------------- state
VARIABLES
    \* GpuUtilSampler: whether one was constructed, _interval, _samples,
    \* _thread (the local state of the thread it refers to), _stop_event
    \* ("None", or the Event's flag "clear" / "set"), _gpu (a handle is held)
    constructed, interval, samples, thread, stop_event, gpu,
    \* polling threads still running that self._thread no longer refers to
    orphans,
    \* environment: pyamdgpuinfo was imported, wall clock
    lib, clock,
    \* main flow: position, who called the sampler method, join timer,
    \* locals of summary(), last return value of summary()
    pc, caller, joinWaited, sLoads, sVrams, sumResult,
    \* run_command_and_collect parameters and locals
    cmd, label, extra, dry_run, started, t0, code, raised, total_time,
    gpu_stats, ret, viaCli,
    \* file system and terminal
    files, stdout, stderr, exitCode,
    \* history
    spawned, telemetry, rccStopped, nWrites, tickFailed, lenAtCheck,
    lenAtCount, sumAfterStop,
    \* the zone APP_TIMEZONE names, the runtime_seconds passed to collect,
    \* and list_records: its limit and the files selected and not yet printed
    tz, runtime, path, limit, selected,
    \* the value _slugify returned to a caller of its own
    slug,
    \* the --extra options `run exec` was given
    cliExtra

samplerVars == <<constructed, interval, samples, thread, stop_event, gpu>>
envVars == <<lib, clock>>
mainVars == <<pc, caller, joinWaited, sLoads, sVrams, sumResult>>
rccVars == <<cmd, label, extra, dry_run, started, t0, code, raised, total_time,
             gpu_stats, ret, viaCli>>
ioVars == <<files, stdout, stderr, exitCode>>
histVars == <<spawned, telemetry, rccStopped, nWrites, tickFailed, lenAtCheck,
              lenAtCount, sumAfterStop>>
recVars == <<tz, runtime, path, limit, selected, slug, cliExtra>>
vars == <<samplerVars, orphans, envVars, mainVars, rccVars, ioVars, histVars,
          recVars>>

\* local state of a polling thread: position in _run_loop and, inside
\* Event.wait, the Event waited on ("cur" is the one self._stop_event holds,
\* "dropped" one the sampler no longer holds and nobody can set, "over" once
\* wait can return) and the time waited.  The values a tick has read are
\* local to the thread until it appends them; the model draws them there.
\* sig is history: stop() has set the Event while this thread was running.
ThreadAt(p) == [pc |-> p, ev |-> "none", waited |-> 0, sig |-> FALSE]
\* the thread ls at position p, and ls with its wait over
At(ls, p) == [ThreadAt(p) EXCEPT !.sig = ls.sig]
WaitOver(ls) == [At(ls, "wait") EXCEPT !.ev = "over"]
NoThread == ThreadAt("none")
NewThread == ThreadAt("entry")
DeadThread == ThreadAt("dead")

Alive(ls) == ls.pc \notin {"none", "dead"}
Signalled(ls) == IF Alive(ls) THEN [ls EXCEPT !.sig = TRUE] ELSE ls

\* the polling threads that exist and have not terminated
Running == (IF Alive(thread) THEN {thread} ELSE {}) \cup BagToSet(orphans)
NumRunning == (IF Alive(thread) THEN 1 ELSE 0) + BagCardinality(orphans)

\* ---------------------------------------------------------------- Init
\* GpuUtilSampler.__init__ (services.py:124-128), nothing called yet
InitCommon ==
    /\ samples = <<>> /\ thread = NoThread /\ stop_event = "None" /\ gpu = FALSE
    /\ orphans = EmptyBag
    /\ lib \in BOOLEAN
    /\ clock = 0
    /\ caller = "none" /\ joinWaited = 0
    /\ sLoads = <<>> /\ sVrams = <<>> /\ sumResult = None
    /\ cmd = <<>> /\ label = <<>> /\ extra = None /\ dry_run = FALSE
    /\ started = FALSE /\ t0 = 0 /\ code = None /\ raised = FALSE
    /\ total_time = 0 /\ gpu_stats = None /\ ret = None /\ viaCli = FALSE
    /\ files = <<>> /\ stdout = <<>> /\ stderr = <<>> /\ exitCode = None
    /\ spawned = 0 /\ telemetry = FALSE /\ rccStopped = FALSE /\ nWrites = 0
    /\ tickFailed = FALSE /\ lenAtCheck = 0 /\ lenAtCount = 0
    /\ sumAfterStop = None
    /\ runtime = None /\ path = None /\ limit = 0 /\ selected = <<>>
    /\ slug = None /\ cliExtra = <<>>

\* the process before `run exec` or run_command_and_collect is entered;
\* one run writes one file, and the zone is left at UTC
Init ==
    /\ InitCommon
    /\ pc = "idle" /\ constructed = FALSE /\ interval = 0
    /\ tz = "UTC"

\* a sampler constructed by a caller that drives start/stop/summary itself
InitSampler ==
    /\ InitCommon
    /\ pc = "api_idle" /\ constructed = TRUE /\ interval \in Intervals
    /\ tz = "UTC"

\* ---------------------------------------------------------------- start()
\* a thread waiting on the Event that self._stop_event is about to drop
Detach(ls) ==
    IF ls.ev = "cur"
    THEN IF stop_event = "set" THEN WaitOver(ls) ELSE [ls EXCEPT !.ev = "dropped"]
    ELSE ls

\* the running threads once self._thread and self._stop_event are overwritten
Orphaned ==
    BagOfAll(Detach, orphans (+) (IF Alive(thread) THEN SetToBag({thread}) ELSE EmptyBag))

\* start() without the `pyamdgpuinfo is None` test
start_NoLibCheck(ok) ==
    /\ ok => NumRunning < MaxThreads
    /\ telemetry' = TRUE
    /\ IF ok
       THEN /\ gpu' = TRUE
            /\ stop_event' = "clear"
            /\ thread' = NewThread
            /\ orphans' = Orphaned
       ELSE /\ gpu' = FALSE
            /\ UNCHANGED <<stop_event, thread, orphans>>
    /\ UNCHANGED samples

\* GpuUtilSampler.start returning ok (services.py:137-149)
start(ok) ==
    /\ ok => lib /\ NumRunning < MaxThreads
    /\ telemetry' = (telemetry \/ lib)
    /\ IF ok
       THEN /\ gpu' = TRUE
            /\ stop_event' = "clear"
            /\ thread' = NewThread
            /\ orphans' = Orphaned
       ELSE /\ gpu' = (IF lib THEN FALSE ELSE gpu)
            /\ UNCHANGED <<stop_event, thread, orphans>>
    /\ UNCHANGED samples

\* ---------------------------------------------------------------- stop()
\* where a sampler method returns to
AfterStop == IF caller = "api" THEN "api_idle"
             ELSE IF raised THEN "rcc_raised" ELSE "rcc_t1"
AfterSummary == IF caller = "api" THEN "api_idle" ELSE "rcc_collect"

\* what summary() returns on a sampler nobody appends to
SummaryOf(s, i) ==
    IF s = <<>> THEN None ELSE Some(SummaryDict(SeqLoads(s), SeqVrams(s), Len(s), i))

\* services.py:153-154
StopSet ==
    /\ pc = "stop_set"
    /\ IF stop_event # "None"
       THEN /\ stop_event' = "set"
            /\ thread' = Signalled(thread)
            /\ orphans' = BagOfAll(Signalled, orphans)
       ELSE UNCHANGED <<stop_event, thread, orphans>>
    /\ joinWaited' = 0
    /\ pc' = "stop_join"
    /\ UNCHANGED <<constructed, interval, samples, gpu, envVars,
                   caller, sLoads, sVrams, sumResult, rccVars, ioVars, histVars, recVars>>

\* Thread.join() without a timeout
JoinReturns_NoTimeout == thread.pc \in {"none", "dead"}

\* Thread.join(timeout = 2 * interval) may return (services.py:155-156)
JoinReturns ==
    \/ thread.pc \in {"none", "dead"}
    \/ joinWaited >= 2 * interval

StopJoin ==
    /\ pc = "stop_join"
    /\ JoinReturns
    /\ pc' = "stop_reset"
    /\ joinWaited' = 0
    /\ UNCHANGED <<samplerVars, orphans, envVars, caller, sLoads, sVrams,
                   sumResult, rccVars, ioVars, histVars, recVars>>

\* services.py:158-159, then return to the caller
StopReset ==
    /\ pc = "stop_reset"
    /\ stop_event' = "None"
    /\ thread' = NoThread
    /\ orphans' = Orphaned
    /\ pc' = AfterStop
    /\ rccStopped' = (rccStopped \/ caller = "rcc")
    /\ sumAfterStop' = (IF caller = "api" THEN Some(SummaryOf(samples, interval))
                        ELSE sumAfterStop)
    /\ UNCHANGED <<constructed, interval, samples, gpu, envVars,
                   caller, joinWaited, sLoads, sVrams, sumResult, rccVars, ioVars,
                   spawned, telemetry, nWrites, tickFailed, lenAtCheck, lenAtCount, recVars>>

\* ---------------------------------------------------------------- summary()
\* services.py:168-169
SumCheck ==
    /\ pc = "sum_check"
    /\ lenAtCheck' = Len(samples)
    /\ IF samples = <<>>
       THEN /\ sumResult' = None
            /\ gpu_stats' = (IF caller = "rcc" THEN None ELSE gpu_stats)
            /\ pc' = AfterSummary
       ELSE /\ pc' = "sum_loads"
            /\ UNCHANGED <<sumResult, gpu_stats>>
    /\ UNCHANGED <<samplerVars, orphans, envVars, caller, joinWaited, sLoads,
                   sVrams, cmd, label, extra, dry_run, started, t0, code, raised,
                   total_time, ret, viaCli, ioVars, spawned, telemetry, rccStopped,
                   nWrites, tickFailed, lenAtCount, sumAfterStop, recVars>>

\* services.py:170
SumLoads ==
    /\ pc = "sum_loads"
    /\ sLoads' = SeqLoads(samples)
    /\ pc' = "sum_vrams"
    /\ UNCHANGED <<samplerVars, orphans, envVars, caller, joinWaited, sVrams,
                   sumResult, rccVars, ioVars, histVars, recVars>>

\* services.py:171
SumVrams ==
    /\ pc = "sum_vrams"
    /\ sVrams' = SeqVrams(samples)
    /\ pc' = "sum_count"
    /\ UNCHANGED <<samplerVars, orphans, envVars, caller, joinWaited, sLoads,
                   sumResult, rccVars, ioVars, histVars, recVars>>

\* counting the loads read at line 170 instead
SampleCount_OfLoads == Len(sLoads)

\* count = len(self._samples) (services.py:172)
SampleCount == Len(samples)

\* services.py:172-181
SumCount ==
    /\ pc = "sum_count"
    /\ LET r == Some(SummaryDict(sLoads, sVrams, SampleCount, interval))
       IN /\ sumResult' = r
          /\ gpu_stats' = (IF caller = "rcc" THEN r ELSE gpu_stats)
    /\ lenAtCount' = Len(samples)
    /\ sLoads' = <<>> /\ sVrams' = <<>>
    /\ pc' = AfterSummary
    /\ UNCHANGED <<samplerVars, orphans, envVars, caller, joinWaited,
                   cmd, label, extra, dry_run, started, t0, code, raised,
                   total_time, ret, viaCli, ioVars, spawned, telemetry, rccStopped,
                   nWrites, tickFailed, lenAtCheck, sumAfterStop, recVars>>

\* ---------------------------------------------------------------- _run_loop
\* the thread in local state ls moves to ls2; a thread that has terminated
\* and that self._thread does not refer to is gone
Become(ls, ls2) ==
    \/ /\ thread = ls
       /\ thread' = ls2
       /\ orphans' = orphans
    \/ /\ BagIn(ls, orphans)
       /\ thread' = thread
       /\ orphans' = (orphans (-) SetToBag({ls}))
                     (+) (IF Alive(ls2) THEN SetToBag({ls2}) ELSE EmptyBag)

\* services.py:184-185
ThreadEntry ==
    /\ \E ls \in Running :
         /\ ls.pc = "entry"
         /\ Become(ls, IF ~gpu \/ stop_event = "None" THEN DeadThread
                       ELSE [ls EXCEPT !.pc = "loop"])
    /\ UNCHANGED <<constructed, interval, samples, stop_event, gpu, envVars,
                   mainVars, rccVars, ioVars, histVars, recVars>>

\* `while not self._stop_event.is_set()` (services.py:186); the attribute is
\* read afresh, and a None left by stop() ends the thread with an error
ThreadLoopTest ==
    /\ \E ls \in Running :
         /\ ls.pc = "loop"
         /\ Become(ls, IF stop_event = "None" THEN DeadThread
                       ELSE IF stop_event = "set" THEN DeadThread
                       ELSE [ls EXCEPT !.pc = "query_load"])
    /\ UNCHANGED <<constructed, interval, samples, stop_event, gpu, envVars,
                   mainVars, rccVars, ioVars, histVars, recVars>>

\* a failed tick that still records what it has
TickFailure_Partial(ls) ==
    /\ Become(ls, DeadThread)
    /\ \E l \in Loads : samples' = Append(samples, <<l, 0>>)
    /\ tickFailed' = (tickFailed \/ started)

\* `except Exception: break` (services.py:190-191): the tick is abandoned.
\* tickFailed records it for a sampler that run_command_and_collect started.
TickFailure(ls) ==
    /\ Become(ls, DeadThread)
    /\ samples' = samples
    /\ tickFailed' = (tickFailed \/ started)

\* load = float(self._gpu.query_load()) (services.py:188)
ThreadQueryLoad ==
    /\ Len(samples) < MaxSamples
    /\ \E ls \in Running :
         /\ ls.pc = "query_load"
         /\ \/ TickFailure(ls)
            \/ /\ gpu
               /\ Become(ls, At(ls, "query_vram"))
               /\ UNCHANGED <<samples, tickFailed>>
    /\ telemetry' = TRUE
    /\ UNCHANGED <<constructed, interval, stop_event, gpu, envVars, mainVars,
                   rccVars, ioVars, spawned, rccStopped, nWrites, lenAtCheck,
                   lenAtCount, sumAfterStop, recVars>>

\* vram = float(self._gpu.query_vram_usage()) (services.py:189)
ThreadQueryVram ==
    /\ \E ls \in Running :
         /\ ls.pc = "query_vram"
         /\ \/ TickFailure(ls)
            \/ /\ gpu
               /\ Become(ls, At(ls, "append"))
               /\ UNCHANGED <<samples, tickFailed>>
    /\ telemetry' = TRUE
    /\ UNCHANGED <<constructed, interval, stop_event, gpu, envVars, mainVars,
                   rccVars, ioVars, spawned, rccStopped, nWrites, lenAtCheck,
                   lenAtCount, sumAfterStop, recVars>>

\* the sample put in front of the list
ThreadAppend_InFront ==
    /\ Len(samples) < MaxSamples
    /\ \E ls \in Running :
         /\ ls.pc = "append"
         /\ \E l \in Loads, v \in Vrams : samples' = << <<l, v>> >> \o samples
         /\ Become(ls, At(ls, "wait_begin"))
    /\ UNCHANGED <<constructed, interval, stop_event, gpu, envVars, mainVars,
                   rccVars, ioVars, histVars, recVars>>

\* self._samples.append((load, vram)) (services.py:192)
ThreadAppend ==
    /\ Len(samples) < MaxSamples
    /\ \E ls \in Running :
         /\ ls.pc = "append"
         /\ \E l \in Loads, v \in Vrams : samples' = Append(samples, <<l, v>>)
         /\ Become(ls, At(ls, "wait_begin"))
    /\ UNCHANGED <<constructed, interval, stop_event, gpu, envVars, mainVars,
                   rccVars, ioVars, histVars, recVars>>

\* self._stop_event.wait(...) (services.py:193): the attribute is read, then
\* the thread waits on that Event
ThreadWaitBegin ==
    /\ \E ls \in Running :
         /\ ls.pc = "wait_begin"
         /\ Become(ls, IF stop_event = "None" THEN DeadThread
                       ELSE IF interval = 0 THEN WaitOver(ls)
                       ELSE [ls EXCEPT !.pc = "wait", !.ev = "cur"])
    /\ UNCHANGED <<constructed, interval, samples, stop_event, gpu, envVars,
                   mainVars, rccVars, ioVars, histVars, recVars>>

\* Event.wait(interval) may return: the Event is set or the interval is over
WaitReturns(ls) ==
    \/ ls.ev = "over"
    \/ ls.ev = "cur" /\ stop_event = "set"

ThreadWaitEnd ==
    /\ \E ls \in Running :
         /\ ls.pc = "wait"
         /\ WaitReturns(ls)
         /\ Become(ls, At(ls, "loop"))
    /\ UNCHANGED <<constructed, interval, samples, stop_event, gpu, envVars,
                   mainVars, rccVars, ioVars, histVars, recVars>>

\* ---------------------------------------------------------------- time
JoinTimerRuns == pc = "stop_join" /\ joinWaited < 2 * interval
WaitTimerRuns(ls) == ls.pc = "wait" /\ ls.ev # "over"
Aged(ls) ==
    IF WaitTimerRuns(ls)
    THEN IF ls.waited + 1 >= interval THEN WaitOver(ls)
         ELSE [ls EXCEPT !.waited = ls.waited + 1]
    ELSE ls

TimersAdvance ==
    /\ joinWaited' = IF JoinTimerRuns THEN joinWaited + 1 ELSE joinWaited
    /\ thread' = Aged(thread)
    /\ orphans' = BagOfAll(Aged, orphans)

\* one second passes while run_command_and_collect is active
Tick ==
    /\ pc # "idle"
    /\ clock < MaxClock \/ JoinTimerRuns \/ \E ls \in Running : WaitTimerRuns(ls)
    /\ clock' = IF clock < MaxClock THEN clock + 1 ELSE clock
    /\ TimersAdvance
    /\ UNCHANGED <<constructed, interval, samples, stop_event, gpu, lib,
                   pc, caller, sLoads, sVrams, sumResult, rccVars, ioVars, histVars, recVars>>

\* one second passes for a sampler driven directly (no wall clock is read)
TickSampler ==
    /\ JoinTimerRuns \/ \E ls \in Running : WaitTimerRuns(ls)
    /\ TimersAdvance
    /\ UNCHANGED <<constructed, interval, samples, stop_event, gpu, envVars,
                   pc, caller, sLoads, sVrams, sumResult, rccVars, ioVars, histVars, recVars>>

\* ---------------------------------------------------------------- orchestrator
\* {slug}_{ts}.json (services.py:105-108)
FileName(l, c, now) ==
    [slug |-> _slugify(SlugSource(l, c)), ts |-> WallSecond(tz, now)]

\* BenchmarkCollector.collect: one file written (services.py:90-111)
Collect(fs, l, c, tt, rs, ex, gs, now) ==
    DictSet(fs, FileName(l, c, now),
            [mtime |-> now, body |-> JsonDumps(Record(l, c, tt, rs, ex, gs, now))])

\* `run exec` up to its call of run_command_and_collect (run.py:50-66)
exec_ ==
    /\ pc = "idle"
    /\ \E c \in Cmds \ {<<>>}, l \in Labels, i \in Intervals, a \in ExtraArgs, d \in BOOLEAN :
         /\ d \/ <<c, l, a>> \in RunArgs
         /\ cmd' = c /\ label' = l /\ interval' = i /\ dry_run' = d
         /\ cliExtra' = a
         /\ extra' = Some(ExtraDict(a, Len(a)))
         /\ stderr' = ExtraWarnings(a)
    /\ viaCli' = TRUE
    /\ pc' = "rcc_enter"
    /\ UNCHANGED <<constructed, samples, thread, stop_event, gpu, orphans, envVars,
                   caller, joinWaited, sLoads, sVrams, sumResult, started, t0, code,
                   raised, total_time, gpu_stats, ret, files, stdout, exitCode,
                   histVars, tz, runtime, path, limit, selected, slug>>

\* run_command_and_collect called as a library function
CallDirect ==
    /\ pc = "idle"
    /\ \E c \in Cmds, l \in Labels, i \in Intervals, e \in DirectExtras, d \in BOOLEAN :
         /\ d \/ <<c, l, e>> \in DirectArgs
         /\ cmd' = c /\ label' = l /\ interval' = i /\ dry_run' = d
         /\ extra' = e
    /\ pc' = "rcc_enter"
    /\ UNCHANGED <<constructed, samples, thread, stop_event, gpu, orphans, envVars,
                   caller, joinWaited, sLoads, sVrams, sumResult, started, t0, code,
                   raised, total_time, gpu_stats, ret, viaCli, ioVars, histVars, recVars>>

\* the dry-run metadata without the marker
DryRunMetadata_NoMarker(ex) == OrEmpty(ex)

\* metadata = dict(extra or {}); metadata["dry_run"] = True (services.py:223-224)
DryRunMetadata(ex) == DictSet(OrEmpty(ex), DRY_RUN, JTrue)

\* the dry-run branch (services.py:222-234)
RccDryRun ==
    /\ pc = "rcc_enter"
    /\ dry_run
    /\ files' = Collect(files, label, cmd, 0, Some(0), Some(DryRunMetadata(extra)),
                        Some(EmptyDict), clock)
    /\ nWrites' = nWrites + 1
    /\ ret' = Some(<<0, FileName(label, cmd, clock)>>)
    /\ pc' = "rcc_returned"
    /\ UNCHANGED <<samplerVars, orphans, envVars, caller, joinWaited, sLoads,
                   sVrams, sumResult, cmd, label, extra, dry_run, started, t0, code,
                   raised, total_time, gpu_stats, viaCli, stdout, stderr, exitCode,
                   spawned, telemetry, rccStopped, tickFailed, lenAtCheck,
                   lenAtCount, sumAfterStop, recVars>>

\* sampler = GpuUtilSampler(...); started = sampler.start(); t0 (services.py:236-238)
RccStart ==
    /\ pc = "rcc_enter"
    /\ ~dry_run
    /\ constructed' = TRUE
    /\ \E ok \in BOOLEAN : start(ok) /\ started' = ok
    /\ t0' = clock
    /\ pc' = "rcc_run"
    /\ UNCHANGED <<interval, envVars, caller, joinWaited, sLoads, sVrams, sumResult,
                   cmd, label, extra, dry_run, code, raised, total_time, gpu_stats,
                   ret, viaCli, ioVars, spawned, rccStopped, nWrites, tickFailed,
                   lenAtCheck, lenAtCount, sumAfterStop, recVars>>

\* subprocess.run followed by stop() without try/finally
AfterRun_NoFinally(o) == IF IsNone(o) THEN "rcc_raised" ELSE "stop_set"

\* where control goes when subprocess.run ends with outcome o, None for an
\* exception: the finally clause runs stop() either way (services.py:239-243)
AfterRun(o) == "stop_set"

\* proc = subprocess.run(cmd, check=False) (services.py:240-241)
RccRun ==
    /\ pc = "rcc_run"
    /\ spawned' = spawned + 1
    /\ \E o \in {None} \cup {Some(c) : c \in ExitCodes} :
         /\ cmd = <<>> => IsNone(o)
         /\ code' = o
         /\ raised' = IsNone(o)
         /\ pc' = AfterRun(o)
    /\ caller' = "rcc"
    /\ UNCHANGED <<samplerVars, orphans, envVars, joinWaited, sLoads, sVrams,
                   sumResult, cmd, label, extra, dry_run, started, t0, total_time,
                   gpu_stats, ret, viaCli, ioVars, telemetry, rccStopped, nWrites,
                   tickFailed, lenAtCheck, lenAtCount, sumAfterStop, recVars>>

\* t1, total_time, `sampler.summary() if started else None` (services.py:244-247)
RccT1 ==
    /\ pc = "rcc_t1"
    /\ total_time' = clock - t0
    /\ IF started
       THEN pc' = "sum_check" /\ UNCHANGED gpu_stats
       ELSE pc' = "rcc_collect" /\ gpu_stats' = None
    /\ UNCHANGED <<samplerVars, orphans, envVars, caller, joinWaited, sLoads,
                   sVrams, sumResult, cmd, label, extra, dry_run, started, t0, code,
                   raised, ret, viaCli, ioVars, histVars, recVars>>

\* collapsing every failure of the child to exit code 1
ReturnCode_Collapsed == IF code[1] = 0 THEN 0 ELSE 1

\* the exit code run_command_and_collect returns (services.py:257)
ReturnCode == code[1]

\* out = collector.collect(...); return code, out (services.py:249-257)
RccCollect ==
    /\ pc = "rcc_collect"
    /\ files' = Collect(files, label, cmd, total_time, None, extra, gpu_stats, clock)
    /\ nWrites' = nWrites + 1
    /\ ret' = Some(<<ReturnCode, FileName(label, cmd, clock)>>)
    /\ pc' = "rcc_returned"
    /\ UNCHANGED <<samplerVars, orphans, envVars, caller, joinWaited, sLoads,
                   sVrams, sumResult, cmd, label, extra, dry_run, started, t0, code,
                   raised, total_time, gpu_stats, viaCli, stdout, stderr, exitCode,
                   spawned, telemetry, rccStopped, tickFailed, lenAtCheck,
                   lenAtCount, sumAfterStop, recVars>>

\* typer.echo(wrote: json_path); raise typer.Exit(code=exit_code) (run.py:67-68)
CliExit ==
    /\ pc = "rcc_returned"
    /\ viaCli
    /\ stdout' = Append(stdout, ret[1][2])
    /\ exitCode' = Some(ret[1][1])
    /\ pc' = "cli_exit"
    /\ UNCHANGED <<samplerVars, orphans, envVars, caller, joinWaited, sLoads,
                   sVrams, sumResult, rccVars, files, stderr, histVars, recVars>>

\* ---------------------------------------------------------------- direct use
\* a caller's sampler.start()
ApiStart ==
    /\ pc = "api_idle"
    /\ \E ok \in BOOLEAN : start(ok)
    /\ sumAfterStop' = None /\ sumResult' = None
    /\ lenAtCheck' = 0 /\ lenAtCount' = 0
    /\ UNCHANGED <<constructed, interval, envVars, pc, caller, joinWaited, sLoads,
                   sVrams, rccVars, ioVars, spawned, rccStopped, nWrites, tickFailed, recVars>>

\* a caller's sampler.stop()
ApiStop ==
    /\ pc = "api_idle"
    /\ pc' = "stop_set"
    /\ caller' = "api"
    /\ sumResult' = None /\ lenAtCheck' = 0 /\ lenAtCount' = 0
    /\ UNCHANGED <<samplerVars, orphans, envVars, joinWaited, sLoads, sVrams,
                   rccVars, ioVars, spawned, telemetry, rccStopped, nWrites,
                   tickFailed, sumAfterStop, recVars>>

\* a caller's sampler.summary()
ApiSummary ==
    /\ pc = "api_idle"
    /\ pc' = "sum_check"
    /\ caller' = "api"
    /\ sumAfterStop' = None /\ sumResult' = None
    /\ lenAtCheck' = 0 /\ lenAtCount' = 0
    /\ UNCHANGED <<samplerVars, orphans, envVars, joinWaited, sLoads, sVrams,
                   rccVars, ioVars, spawned, telemetry, rccStopped, nWrites,
                   tickFailed, recVars>>

\* ---------------------------------------------------------------- records
\* a process that calls the collector and `status list` on one directory:
\* the positions at which the next call can be made
RecIdle == {"rec_idle", "rec_collected", "list_empty", "list_done", "list_raised"}

\* the instants at which calls are made, and the arguments explored
Instants == {0, 1, FoldAt}
CollectArgs == { << <<"a", "\"">>, << <<"x">>, <<"\\", "b">> >>, 0, Some(7) >>,
                 << <<"*", "a">>, <<>>, 12, None >>,
                 << <<>>, <<>>, 12, None >> }

\* the previous call has returned and its arguments and output are gone
ForgetCollect ==
    /\ label' = <<>> /\ cmd' = <<>> /\ total_time' = 0 /\ runtime' = None
    /\ path' = None /\ nWrites' = 0
ForgetList ==
    /\ stdout' = <<>> /\ exitCode' = None /\ limit' = 0 /\ selected' = <<>>

\* the collector called directly, as tests/core/test_services.py:7-15 does
InitRecords ==
    /\ InitCommon
    /\ pc = "rec_idle" /\ constructed = FALSE /\ interval = 0
    /\ tz \in Zones

\* time passes between two calls
TimePasses ==
    /\ pc \in RecIdle
    /\ \E t \in Instants : t > clock /\ clock' = t
    /\ pc' = "rec_idle" /\ ForgetCollect /\ ForgetList
    /\ UNCHANGED <<samplerVars, orphans, lib, caller, joinWaited, sLoads, sVrams,
                   sumResult, extra, dry_run, started, t0, code, raised,
                   gpu_stats, ret, viaCli, files, stderr, spawned, telemetry,
                   rccStopped, tickFailed, lenAtCheck, lenAtCount, sumAfterStop,
                   tz, slug, cliExtra>>

\* BenchmarkCollector.collect called (services.py:66-111)
CollectCall ==
    /\ pc \in RecIdle
    /\ \E a \in CollectArgs :
         /\ \/ FileName(a[1], a[2], clock) \in DOMAIN files
            \/ Cardinality(DOMAIN files) < MaxFiles
         /\ label' = a[1] /\ cmd' = a[2] /\ total_time' = a[3] /\ runtime' = a[4]
         /\ files' = Collect(files, a[1], a[2], a[3], a[4], None, None, clock)
         /\ path' = Some(FileName(a[1], a[2], clock))
    /\ nWrites' = 1
    /\ pc' = "rec_collected" /\ ForgetList
    /\ UNCHANGED <<samplerVars, orphans, envVars, caller, joinWaited, sLoads,
                   sVrams, sumResult, extra, dry_run, started, t0, code, raised,
                   gpu_stats, ret, viaCli, stderr, spawned,
                   telemetry, rccStopped, tickFailed, lenAtCheck, lenAtCount,
                   sumAfterStop, tz, slug, cliExtra>>

\* ---------------------------------------------------------------- status list
\* .json files that the collector did not write
NotJson == [t |-> "text", v |-> <<>>]
ForeignNames == { [slug |-> <<"n">>, ts |-> 0] }
ForeignBodies == { NotJson, JObj(EmptyDict), JObj([total_time_seconds |-> JNum(1)]) }

\* another program puts a .json file into the directory
ForeignWrite ==
    /\ pc \in RecIdle
    /\ \E n \in ForeignNames, b \in ForeignBodies :
         /\ n \in DOMAIN files \/ Cardinality(DOMAIN files) < MaxFiles
         /\ files' = DictSet(files, n, [mtime |-> clock, body |-> b])
    /\ pc' = "rec_idle" /\ ForgetCollect /\ ForgetList
    /\ UNCHANGED <<samplerVars, orphans, envVars, caller, joinWaited, sLoads,
                   sVrams, sumResult, extra, dry_run, started, t0, code, raised,
                   gpu_stats, ret, viaCli, stderr, spawned, telemetry,
                   rccStopped, tickFailed, lenAtCheck, lenAtCount, sumAfterStop,
                   tz, slug, cliExtra>>

\* the orders sorted(..., key=st_mtime, reverse=True) can give (status.py:14);
\* files of equal mtime come in the order glob yields them, which is any
IsPermOf(q, S) == Len(q) = Cardinality(S) /\ {q[i] : i \in DOMAIN q} = S
NewestFirst(fs) ==
    { q \in [1..Cardinality(DOMAIN fs) -> DOMAIN fs] :
        /\ IsPermOf(q, DOMAIN fs)
        /\ \A i \in 1..(Len(q) - 1) : fs[q[i]].mtime >= fs[q[i + 1]].mtime }

\* q[:n] of Python: a negative n counts from the end
PySlice(q, n) ==
    IF n >= 0 THEN SubSeq(q, 1, IF n < Len(q) THEN n ELSE Len(q))
    ELSE SubSeq(q, 1, IF Len(q) + n > 0 THEN Len(q) + n ELSE 0)

DefaultLimit == 10
Limits == {-1, 0, 1, DefaultLimit}
NO_RECORDS == <<"[status] No records found.">>

\* `status list` up to the loop (status.py:13-17)
ListCall ==
    /\ pc \in RecIdle
    /\ \E n \in Limits, q \in NewestFirst(files) :
         /\ limit' = n
         /\ selected' = PySlice(q, n)
         /\ IF PySlice(q, n) = <<>>
            THEN /\ stdout' = <<NO_RECORDS>>
                 /\ exitCode' = Some(0)
                 /\ pc' = "list_empty"
            ELSE /\ stdout' = <<>>
                 /\ exitCode' = None
                 /\ pc' = "list_loop"
    /\ ForgetCollect
    /\ UNCHANGED <<samplerVars, orphans, envVars, caller, joinWaited, sLoads,
                   sVrams, sumResult, extra, dry_run, started, t0, code, raised,
                   gpu_stats, ret, viaCli, files, stderr, spawned, telemetry,
                   rccStopped, tickFailed, lenAtCheck, lenAtCount, sumAfterStop,
                   tz, slug, cliExtra>>

\* d.get(k, default) on a parsed object
Get(d, k, default) == IF k \in DOMAIN d THEN d[k] ELSE default

\* the line of status.py:30 for the object d of file f
RecordLine(f, d) ==
    LET g == Get(d, "gpu_stats", JObj(EmptyDict)).v
    IN [file |-> f, failed |-> FALSE,
        label |-> Get(d, "label", JStr(<<"?">>)),
        total |-> d["total_time_seconds"],
        avg |-> Get(g, "avg_gpu_load_percent", JNull),
        max |-> Get(g, "max_gpu_load_percent", JNull)]

\* the line of status.py:23
FailedLine(f) == [file |-> f, failed |-> TRUE]

\* what formatting the line does with the parsed content: data.get needs an
\* object and `{total:.2f}` a number (status.py:25-30)
LineRaises(body) ==
    \/ body.t # "obj"
    \/ Get(body.v, "total_time_seconds", JNull).t # "num"

\* one pass of the loop (status.py:19-30)
ListStep ==
    /\ pc = "list_loop" /\ selected # <<>>
    /\ LET f == Head(selected)
           body == files[f].body
       IN IF body = NotJson
          THEN /\ stdout' = Append(stdout, FailedLine(f))
               /\ selected' = Tail(selected)
               /\ UNCHANGED <<pc, exitCode>>
          ELSE IF LineRaises(body)
          THEN /\ pc' = "list_raised"
               /\ exitCode' = Some(1)
               /\ UNCHANGED <<stdout, selected>>
          ELSE /\ stdout' = Append(stdout, RecordLine(f, body.v))
               /\ selected' = Tail(selected)
               /\ UNCHANGED <<pc, exitCode>>
    /\ UNCHANGED <<samplerVars, orphans, envVars, caller, joinWaited, sLoads,
                   sVrams, sumResult, rccVars, files, stderr, histVars, tz,
                   runtime, path, limit, slug, cliExtra>>

\* the loop is over and list_records returns
ListDone ==
    /\ pc = "list_loop" /\ selected = <<>>
    /\ pc' = "list_done"
    /\ exitCode' = Some(0)
    /\ UNCHANGED <<samplerVars, orphans, envVars, caller, joinWaited, sLoads,
                   sVrams, sumResult, rccVars, files, stdout, stderr, histVars,
                   recVars>>

\* ---------------------------------------------------------------- _slugify alone
\* the labels given to _slugify: every string of these letters up to MaxLabel
SlugLetters == {"a", "-", ".", "_", "*", " "}
SlugInputs == UNION { [1..n -> SlugLetters] : n \in 0..MaxLabel }

InitSlug ==
    /\ InitCommon
    /\ pc = "slug_idle" /\ constructed = FALSE /\ interval = 0
    /\ tz = "UTC"

\* _slugify(value) called and returning (services.py:30-32)
SlugCall ==
    /\ pc = "slug_idle"
    /\ \E value \in SlugInputs :
         /\ label' = value
         /\ slug' = Some(_slugify(value))
    /\ pc' = "slug_done"
    /\ UNCHANGED <<samplerVars, orphans, envVars, caller, joinWaited, sLoads,
                   sVrams, sumResult, cmd, extra, dry_run, started, t0, code,
                   raised, total_time, gpu_stats, ret, viaCli, ioVars, histVars,
                   tz, runtime, path, limit, selected, cliExtra>>

\* the caller is ready for another label
SlugNext ==
    /\ pc = "slug_done"
    /\ pc' = "slug_idle"
    /\ label' = <<>> /\ slug' = None
    /\ UNCHANGED <<samplerVars, orphans, envVars, caller, joinWaited, sLoads,
                   sVrams, sumResult, cmd, extra, dry_run, started, t0, code,
                   raised, total_time, gpu_stats, ret, viaCli, ioVars, histVars,
                   tz, runtime, path, limit, selected, cliExtra>>

\* ---------------------------------------------------------------- specifications
Next ==
    \/ exec_
    \/ CallDirect
    \/ RccDryRun
    \/ RccStart
    \/ RccRun
    \/ StopSet
    \/ StopJoin
    \/ StopReset
    \/ RccT1
    \/ SumCheck
    \/ SumLoads
    \/ SumVrams
    \/ SumCount
    \/ RccCollect
    \/ CliExit
    \/ ThreadEntry
    \/ ThreadLoopTest
    \/ ThreadQueryLoad
    \/ ThreadQueryVram
    \/ ThreadAppend
    \/ ThreadWaitBegin
    \/ ThreadWaitEnd
    \/ Tick

Spec == Init /\ [][Next]_vars

NextSampler ==
    \/ ApiStart
    \/ ApiStop
    \/ ApiSummary
    \/ StopSet
    \/ StopJoin
    \/ StopReset
    \/ SumCheck
    \/ SumLoads
    \/ SumVrams
    \/ SumCount
    \/ ThreadEntry
    \/ ThreadLoopTest
    \/ ThreadQueryLoad
    \/ ThreadQueryVram
    \/ ThreadAppend
    \/ ThreadWaitBegin
    \/ ThreadWaitEnd
    \/ TickSampler

SpecSampler == InitSampler /\ [][NextSampler]_vars

NextRecords ==
    \/ TimePasses
    \/ CollectCall
    \/ ForeignWrite
    \/ ListCall
    \/ ListStep
    \/ ListDone

SpecRecords == InitRecords /\ [][NextRecords]_vars

NextSlug ==
    \/ SlugCall
    \/ SlugNext

SpecSlug == InitSlug /\ [][NextSlug]_vars

\* start() and stop() called in any order on one sampler; summary(), which
\* writes nothing that stop() or _run_loop reads (services.py:161-181), is
\* left to SpecSampler
NextLifecycle ==
    \/ ApiStart
    \/ ApiStop
    \/ StopSet
    \/ StopJoin
    \/ StopReset
    \/ ThreadEntry
    \/ ThreadLoopTest
    \/ ThreadQueryLoad
    \/ ThreadQueryVram
    \/ ThreadAppend
    \/ ThreadWaitBegin
    \/ ThreadWaitEnd
    \/ TickSampler

\* stop() is run by the calling thread and time passes; nothing makes a
\* polling thread take its next step (a telemetry query may block)
FairSampler ==
    /\ InitSampler /\ [][NextLifecycle]_vars
    /\ WF_vars(StopSet) /\ WF_vars(StopJoin) /\ WF_vars(StopReset)
    /\ WF_vars(TickSampler)

TypeOK ==
    /\ stop_event \in {"None", "clear", "set"}
    /\ NumRunning <= MaxThreads
    /\ Len(samples) <= MaxSamples
    /\ clock \in (0..MaxClock) \cup Instants
    /\ Cardinality(DOMAIN files) <= MaxFiles

\* ---------------------------------------------------------------- claims
RccExited == pc \in {"rcc_raised", "rcc_returned", "cli_exit"}
RccReturned == pc \in {"rcc_returned", "cli_exit"}
WrittenRecord == JsonLoads(files[ret[1][2]].body)

\* C1: a run that executes the command has called stop(), and stop() has
\* returned, on every way out of run_command_and_collect; when launching the
\* child raised, the error surfaces after stop() and no record was written
C1_StopOnEveryExit ==
    /\ (RccExited /\ ~dry_run) => rccStopped /\ thread = NoThread /\ stop_event = "None"
    /\ pc = "rcc_raised" => rccStopped /\ nWrites = 0 /\ DOMAIN files = {} /\ IsNone(ret)

C1_Witness == pc = "rcc_raised" /\ started /\ rccStopped /\ spawned = 1

\* C2: once summary() has begun to read the samples in
\* run_command_and_collect, no polling thread appends a sample any more
SummaryReadBegun ==
    /\ caller = "rcc"
    /\ started
    /\ pc \in {"sum_loads", "sum_vrams", "sum_count", "rcc_collect", "rcc_returned",
               "cli_exit"}

C2_NoAppendAfterRead == [][SummaryReadBegun => samples' = samples]_vars

\* C3: a dry run spawns no process, constructs no sampler, makes no telemetry
\* call, writes one record with zero times, empty gpu_stats and the caller's
\* extra plus dry_run = true, and returns (0, path of that record)
C3_DryRun ==
    dry_run =>
      /\ spawned = 0 /\ ~telemetry /\ ~constructed /\ NumRunning = 0
      /\ thread = NoThread /\ samples = <<>>
      /\ pc \in {"rcc_enter", "rcc_returned", "cli_exit"}
      /\ RccReturned =>
           /\ nWrites = 1
           /\ ~IsNone(ret) /\ ret[1][1] = 0
           /\ DOMAIN files = {ret[1][2]}
           /\ WrittenRecord.total_time_seconds = 0
           /\ WrittenRecord.runtime_seconds = Some(0)
           /\ WrittenRecord.gpu_stats = EmptyDict
           /\ WrittenRecord.label = label /\ WrittenRecord.cmd = cmd
           /\ DOMAIN WrittenRecord.extra = (DOMAIN OrEmpty(extra)) \cup {DRY_RUN}
           /\ WrittenRecord.extra[DRY_RUN] = JTrue
           /\ \A k \in (DOMAIN OrEmpty(extra)) \ {DRY_RUN} :
                WrittenRecord.extra[k] = OrEmpty(extra)[k]

C3_Witness ==
    /\ dry_run /\ pc = "rcc_returned"
    /\ DOMAIN OrEmpty(extra) # {}
    /\ cmd = <<>>

\* C4: a run whose child launched and exited with code c writes one record
\* and returns (c, its path), `run exec` reports the path and exits with c,
\* and only a failed launch ends the call with an error
C4_ExitCodePassedThrough ==
    /\ (RccReturned /\ ~dry_run) =>
         /\ ~IsNone(code)
         /\ ret[1][1] = code[1]
         /\ nWrites = 1
         /\ DOMAIN files = {ret[1][2]}
    /\ (pc = "cli_exit" /\ ~dry_run) =>
         /\ exitCode = Some(code[1])
         /\ stdout = <<ret[1][2]>>
    /\ pc = "rcc_raised" => IsNone(code)

C4_Witness == pc = "cli_exit" /\ ~dry_run /\ exitCode = Some(2) /\ nWrites = 1

\* C5: when a second stop() follows a first one, summary() gives after the
\* second what it gave after the first
C5_StopTwiceSameSummary ==
    [][(pc = "stop_reset" /\ caller = "api" /\ ~IsNone(sumAfterStop))
         => Some(SummaryOf(samples', interval')) = sumAfterStop]_vars

\* C6: stop() returns, whatever the polling thread does, and when it returns
\* the sampler holds neither a thread nor an Event
StopPcs == {"stop_set", "stop_join", "stop_reset"}

C6_StopReturns ==
    /\ (pc \in StopPcs) ~> (pc \notin StopPcs)
    /\ [][(pc \in StopPcs /\ pc' \notin StopPcs)
            => thread' = NoThread /\ stop_event' = "None"]_vars

\* stop() has returned while the polling thread it stopped is still running
C6_Witness ==
    /\ pc = "api_idle" /\ ~IsNone(sumAfterStop)
    /\ thread = NoThread /\ stop_event = "None"
    /\ \E ls \in BagToSet(orphans) : ls.pc \in {"query_load", "query_vram"}

\* C7: at most one polling thread is inside the loop of _run_loop
InLoop(ls) == ls.pc \in {"loop", "query_load", "query_vram", "append", "wait_begin", "wait"}

C7_OneProducer ==
    LET O == {ls \in BagToSet(orphans) : InLoop(ls)}
    IN /\ InLoop(thread) => O = {}
       /\ \A ls \in O : orphans[ls] = 1
       /\ \A ls1, ls2 \in O : ls1 = ls2

\* C8: a telemetry query that fails ends the polling thread only: the samples
\* stay as they were, the main flow is not disturbed, and the call returns the
\* child's exit code with its record written
C8_TickFailureContained ==
    /\ [][(tickFailed' /\ ~tickFailed)
            => samples' = samples /\ pc' = pc /\ raised' = raised /\ code' = code]_vars
    /\ []((tickFailed /\ RccReturned) =>
            /\ ret[1][1] = code[1]
            /\ nWrites = 1
            /\ DOMAIN files = {ret[1][2]}
            /\ WrittenRecord.gpu_stats = OrEmpty(SummaryOf(samples, interval)))
    /\ [](pc = "rcc_raised" => IsNone(code))

C8_Witness ==
    /\ tickFailed /\ pc = "rcc_returned"
    /\ Len(samples) = 1
    /\ code = Some(1)
    /\ WrittenRecord.gpu_stats # EmptyDict

\* C9: without the library or without a device, start() returns false and
\* launches no thread; the command still runs, its exit code is returned and
\* the record written has an empty gpu_stats
C9_Unavailable ==
    /\ ~lib => ~started
    /\ ~started => NumRunning = 0 /\ thread = NoThread /\ samples = <<>>
    /\ (RccExited /\ ~dry_run) => spawned = 1
    /\ (RccReturned /\ ~dry_run /\ ~started) =>
         /\ ret[1][1] = code[1]
         /\ nWrites = 1
         /\ WrittenRecord.gpu_stats = EmptyDict

C9_Witness ==
    /\ pc = "rcc_returned" /\ ~dry_run /\ ~started /\ lib
    /\ code = Some(1)

\* C10: summary() returns None exactly when the samples were empty at its
\* test, and otherwise a summary whose sample_count is the number of samples
\* at the time it was counted
C10_SummaryNullIffEmpty ==
    pc \notin {"sum_loads", "sum_vrams", "sum_count"} =>
      /\ IsNone(sumResult) <=> lenAtCheck = 0
      /\ ~IsNone(sumResult) => sumResult[1].sample_count = lenAtCount

C10_Witness ==
    /\ pc = "api_idle" /\ ~IsNone(sumResult)
    /\ sumResult[1].sample_count = 2
    /\ NumRunning > 0

\* C11: two collect() calls into one directory made at least one second
\* apart produce different filenames, whatever the labels and the configured
\* zone, so a call never overwrites the file of a call made a second or more
\* before it
C11_DistinctFilenames ==
    [][pc' = "rec_collected" =>
         \A n \in DOMAIN files : files[n].mtime + 1 <= clock' => path'[1] # n]_vars

\* C12: once stop() has set the Event, a polling thread that reaches its loop
\* test or the start of its wait does not find an unset Event there: it
\* leaves the loop at the next test without sleeping, having appended at
\* most the sample of the tick in progress
C12_StopInterruptsLoop ==
    \A ls \in Running :
        ls.sig => ~(ls.pc \in {"loop", "wait_begin"} /\ stop_event = "clear")

\* C13: list_records never aborts because of what a selected file holds: each
\* pass of the loop prints exactly one line, naming the file, and goes on to
\* the next file; the line reports a parse failure exactly when the file does
\* not parse
C13_ListNeverAborts ==
    /\ [](pc # "list_raised")
    /\ [][(pc = "list_loop" /\ selected # <<>>) =>
            /\ selected' = Tail(selected)
            /\ Len(stdout') = Len(stdout) + 1
            /\ stdout'[Len(stdout')].file = Head(selected)
            /\ stdout'[Len(stdout')].failed = (files[Head(selected)].body = NotJson)]_vars

\* C14: list_records selects min(limit, number of .json files) files (none
\* for a limit below 1), the newest by modification time, newest first; an
\* empty selection prints the "no records found" message and exits with 0,
\* and a listing that ends has printed one line per selected file
ListCount == IF limit < Cardinality(DOMAIN files) THEN limit ELSE Cardinality(DOMAIN files)
ListExpected == IF ListCount < 0 THEN 0 ELSE ListCount
ListTaken == {stdout[i].file : i \in DOMAIN stdout} \cup {selected[i] : i \in DOMAIN selected}

C14_ListAtMostLimit ==
    /\ pc = "list_empty" =>
         ListExpected = 0 /\ stdout = <<NO_RECORDS>> /\ exitCode = Some(0)
    /\ pc = "list_loop" =>
         /\ ListExpected > 0
         /\ Len(stdout) + Len(selected) = ListExpected
         /\ \A i \in 1..(Len(selected) - 1) :
              files[selected[i]].mtime >= files[selected[i + 1]].mtime
         /\ \A f \in ListTaken, g \in (DOMAIN files) \ ListTaken :
              files[f].mtime >= files[g].mtime
    /\ pc = "list_done" => Len(stdout) = ListExpected /\ exitCode = Some(0)

\* C15: for every label, _slugify returns a non-empty string of letters of
\* [A-Za-z0-9._-] that neither starts nor ends with "-", "." or "_"; every
\* maximal run of other letters has become one "-" (and the ends were then
\* stripped); a label with nothing but such letters and "-", "." or "_"
\* yields "benchmark"
Unsafe(c) == c \in {"*", " "}
Edge(c) == c \in {"-", ".", "_"}
CorePos(v) == {i \in DOMAIN v : ~Unsafe(v[i]) /\ ~Edge(v[i])}
FirstCore(v) == CHOOSE i \in CorePos(v) : \A j \in CorePos(v) : i <= j
LastCore(v) == CHOOSE i \in CorePos(v) : \A j \in CorePos(v) : i >= j
\* the positions that survive: safe letters, and the first letter of each run
KeptPos(v) ==
    {i \in FirstCore(v)..LastCore(v) : ~Unsafe(v[i]) \/ ~Unsafe(v[i - 1])}
KthKept(v, k) ==
    CHOOSE i \in KeptPos(v) : Cardinality({j \in KeptPos(v) : j <= i}) = k
SlugExpected(v) ==
    IF CorePos(v) = {} THEN BENCHMARK
    ELSE [k \in 1..Cardinality(KeptPos(v)) |->
            IF Unsafe(v[KthKept(v, k)]) THEN "-" ELSE v[KthKept(v, k)]]

C15_SlugifySafe ==
    pc = "slug_done" =>
        /\ slug[1] # <<>>
        /\ \A i \in DOMAIN slug[1] : ~Unsafe(slug[1][i])
        /\ ~Edge(slug[1][1]) /\ ~Edge(slug[1][Len(slug[1])])
        /\ slug[1] = SlugExpected(label)

\* a run of two unsafe letters inside the label has become one "-"
C15_Witness ==
    /\ pc = "slug_done"
    /\ label = <<"a", "*", " ", "a">>
    /\ slug = Some(<<"a", "-", "a">>)

\* C16: a collect() call writes one file and leaves the others alone; the
\* path it returns is the file it wrote, which exists, and parsing that file
\* gives back the label, the cmd sequence in order, total_time_seconds and
\* runtime_seconds that were passed in
Collected == JsonLoads(files[path[1]].body)

C16_CollectRoundTrip ==
    /\ [](pc = "rec_collected" =>
            /\ path[1] \in DOMAIN files
            /\ files[path[1]].mtime = clock
            /\ Collected.label = label
            /\ Collected.cmd = cmd
            /\ Collected.total_time_seconds = total_time
            /\ Collected.runtime_seconds = runtime)
    /\ [][pc' = "rec_collected" =>
            /\ DOMAIN files' = (DOMAIN files) \cup {path'[1]}
            /\ \A n \in (DOMAIN files) \ {path'[1]} : files'[n] = files[n]]_vars

\* a label and an argument that JSON has to escape, and a runtime, read back
C16_Witness ==
    /\ pc = "rec_collected"
    /\ label = <<"a", "\"">>
    /\ cmd = << <<"x">>, <<"\\", "b">> >>
    /\ runtime = Some(7)
    /\ files[path[1]].body.v.label.v = <<"a", "\\", "\"">>
    /\ Cardinality(DOMAIN files) = 2

\* C17: `run exec` passes to run_command_and_collect exactly the --extra
\* entries that hold an "=", each split at its first "=" into key and value;
\* every other entry is warned about on stderr and dropped, and the command
\* is still executed and its record, with that metadata, written
WithEq(args) == {i \in DOMAIN args : \E j \in DOMAIN args[i] : args[i][j] = "="}
IsSplit(kv, k, v) == kv = k \o <<"=">> \o v /\ \A j \in DOMAIN k : k[j] # "="

C17_ExtraWithoutEq ==
    viaCli =>
        /\ \A i \in WithEq(cliExtra) :
              \E k \in DOMAIN extra[1] : IsSplit(cliExtra[i], k, extra[1][k].v)
        /\ \A k \in DOMAIN extra[1] :
              \E i \in WithEq(cliExtra) : IsSplit(cliExtra[i], k, extra[1][k].v)
        /\ Len(stderr) = Len(cliExtra) - Cardinality(WithEq(cliExtra))
        /\ \A j \in DOMAIN stderr :
              \E i \in (DOMAIN cliExtra) \ WithEq(cliExtra) : stderr[j] = cliExtra[i]
        /\ (pc = "cli_exit" /\ ~dry_run) =>
              /\ spawned = 1 /\ nWrites = 1
              /\ WrittenRecord.extra = extra[1]

\* a run with one entry split at its first "=" and one entry dropped
C17_Witness ==
    /\ pc = "cli_exit" /\ ~dry_run /\ spawned = 1
    /\ cliExtra = << <<"k", "=", "v", "=", "v">>, <<"k">> >>
    /\ stderr = << <<"k">> >>
    /\ WrittenRecord.extra = [x \in {<<"k">>} |-> JStr(<<"v", "=", "v">>)]

\* C18: the sample sequence only grows at its end: at every step of start(),
\* stop(), summary() or a polling thread the sequence before is a prefix of
\* the sequence after, and no step of summary() changes it
SumPcs == {"sum_check", "sum_loads", "sum_vrams", "sum_count"}

C18_SamplesAppendOnly ==
    /\ [][/\ Len(samples') >= Len(samples)
           /\ SubSeq(samples', 1, Len(samples)) = samples]_vars
    /\ [][(pc \in SumPcs /\ pc' # pc) => samples' = samples]_vars

\* two different samples appended, then stop() and summary() gone through
C18_Witness ==
    /\ pc = "api_idle" /\ ~IsNone(sumResult)
    /\ thread = NoThread
    /\ Len(samples) = 2 /\ samples[1] # samples[2]

====
